---- MODULE Spec2Model ----
(***************************************************************************)
(* A model of utils/pytorch_utils.py: the type-coercion helpers safe_var   *)
(* and safe_tensor, the AverageMeter running average, and the             *)
(* DifferentiableNormalize normalizer.                                     *)
(*                                                                         *)
(* Numbers are exact rationals <<numerator, denominator>> in lowest terms  *)
(* with a positive denominator; floating-point rounding is not modelled.   *)
(* A tensor is a record [shape, data] with a 4-entry shape <<N, C, H, W>>  *)
(* and its elements in row-major order.  An optional argument (None or a   *)
(* value) is the empty set or a singleton set.                             *)
(***************************************************************************)
EXTENDS Integers, Sequences, FiniteSets, TLC

VARIABLES
    \* DifferentiableNormalize
    mean,             \* self.mean
    std,              \* self.std
    differentiable,   \* self.differentiable
    nondiff_normer,   \* self.nondiff_normer, the transforms.Normalize object
    op,               \* the last operation called on the normalizer and its arguments
    result,           \* what that operation returned or raised
    since,            \* the statistics in force since the last one-sided override
    \* AverageMeter
    val, avg, sum, count,
    hist,             \* the update(val, n) calls made since the last reset
    meterResult,      \* the outcome of the last AverageMeter call
    \* safe_var / safe_tensor
    entity,           \* the argument handed to the helper
    helper,           \* which helper was called last
    coerced           \* what it returned or raised

normVars == <<mean, std, differentiable, nondiff_normer, op, result, since>>
meterVars == <<val, avg, sum, count, hist, meterResult>>
coerceVars == <<entity, helper, coerced>>
vars == <<normVars, meterVars, coerceVars>>

----------------------------------------------------------------------------
(* Bounds of the model *)

MaxLen == 2      \* longest mean / std list of the stateful normalizer model
MaxC == 3        \* most channels of a batch in the forward-only model
MaxW == 2        \* widest batch
MaxB == 2        \* largest batch size N in the forward-only model
MaxH == 1        \* tallest batch in the forward-only model
MaxUpdates == 3  \* most update calls between two resets of the meter
MaxN == 2        \* largest weight n of an update
MaxVal == 2      \* largest value of an update
MaxData == 2     \* longest payload of a coerced entity

----------------------------------------------------------------------------
(* Exact arithmetic *)

Abs(x) == IF x < 0 THEN -x ELSE x

RECURSIVE GCD(_, _)
GCD(a, b) == IF b = 0 THEN a ELSE GCD(b, a % b)

\* the rational n / d (d # 0) in lowest terms
Rat(n, d) ==
    LET g == GCD(Abs(n), Abs(d))
        s == IF d < 0 THEN -1 ELSE 1
    IN  <<(s * n) \div g, (s * d) \div g>>

RSub(a, b) == Rat(a[1] * b[2] - b[1] * a[2], a[2] * b[2])

RAdd(a, b) == Rat(a[1] * b[2] + b[1] * a[2], a[2] * b[2])

RMul(a, b) == Rat(a[1] * b[1], a[2] * b[2])

\* a / b; a zero divisor gives inf, -inf or nan as <<1,0>>, <<-1,0>>, <<0,0>>
RDiv(a, b) ==
    IF b[1] = 0
    THEN <<IF a[1] > 0 THEN 1 ELSE IF a[1] < 0 THEN -1 ELSE 0, 0>>
    ELSE Rat(a[1] * b[2], a[2] * b[1])

Zero == <<0, 1>>
Half == <<1, 2>>
One == <<1, 1>>

----------------------------------------------------------------------------
(* Tensors *)

Numel(shape) == shape[1] * shape[2] * shape[3] * shape[4]

\* the multi-index (0-based) of the element at 0-based row-major offset off
Unravel(off, shape) ==
    << off \div (shape[2] * shape[3] * shape[4]),
       (off \div (shape[3] * shape[4])) % shape[2],
       (off \div shape[4]) % shape[3],
       off % shape[4] >>

Ravel(idx, shape) ==
    ((idx[1] * shape[2] + idx[2]) * shape[3] + idx[3]) * shape[4] + idx[4]

\* the element of tensor t that broadcasting pairs with multi-index idx
BroadcastGet(t, idx) ==
    t.data[Ravel([k \in 1..4 |-> IF t.shape[k] = 1 THEN 0 ELSE idx[k]], t.shape) + 1]

BroadcastShape(s1, s2) ==
    [k \in 1..4 |-> IF s1[k] >= s2[k] THEN s1[k] ELSE s2[k]]

\* a - b, element-wise with broadcasting
TensorSub(a, b) ==
    LET shape == BroadcastShape(a.shape, b.shape)
    IN  [shape |-> shape,
         data |-> [i \in 1..Numel(shape) |->
                     RSub(BroadcastGet(a, Unravel(i - 1, shape)),
                          BroadcastGet(b, Unravel(i - 1, shape)))]]

\* a / b, element-wise with broadcasting
TensorDiv(a, b) ==
    LET shape == BroadcastShape(a.shape, b.shape)
    IN  [shape |-> shape,
         data |-> [i \in 1..Numel(shape) |->
                     RDiv(BroadcastGet(a, Unravel(i - 1, shape)),
                          BroadcastGet(b, Unravel(i - 1, shape)))]]

\* var.data.new(list).view(1, c, 1, 1)
NewView(list, c) == [shape |-> <<1, c, 1, 1>>, data |-> list]

----------------------------------------------------------------------------
(* Inputs *)

ConstVec(x, len) == [k \in 1..len |-> x]
RampVec(len) == [k \in 1..len |-> Rat(k, 2)]

\* a batch whose elements are 1/2, 1, 3/2, ... in row-major order
RampBatch(shape) == [shape |-> shape, data |-> [i \in 1..Numel(shape) |-> Rat(i, 2)]]
ConstBatch(x, shape) == [shape |-> shape, data |-> [i \in 1..Numel(shape) |-> x]]

\* mean and std lists of the stateful model: the constant list of every length
\* and the ramp of the greatest length
StatMeans == {ConstVec(Zero, len) : len \in 1..MaxLen} \cup {RampVec(MaxLen)}
StatStds == {ConstVec(One, len) : len \in 1..MaxLen} \cup {RampVec(MaxLen)}
StatBatches == {RampBatch(<<1, c, 1, MaxW>>) : c \in 1..MaxLen}

\* mean and std lists and batches of the forward-only model
FwdMeans == UNION {{ConstVec(Zero, len), ConstVec(Half, len), RampVec(len)} : len \in 1..MaxC}
FwdStds == UNION {{ConstVec(One, len), ConstVec(Half, len), RampVec(len)} : len \in 1..MaxC}
FwdShapes == {<<n, c, h, w>> : n \in 1..MaxB, c \in 1..MaxC, h \in 1..MaxH, w \in 1..MaxW}
FwdBatches == UNION {{RampBatch(sh), ConstBatch(One, sh)} : sh \in FwdShapes}

None == {}
Some(x) == {x}
Get(opt) == CHOOSE x \in opt : TRUE
Optional(S) == {None} \cup {Some(x) : x \in S}

----------------------------------------------------------------------------
(* DifferentiableNormalize *)

NoTensor == [shape |-> <<0, 0, 0, 0>>, data |-> <<>>]
NoResult == [kind |-> "none", value |-> NoTensor, error |-> ""]
Return(t) == [kind |-> "return", value |-> t, error |-> ""]
Raise(e) == [kind |-> "raise", value |-> NoTensor, error |-> e]

NoStats == [active |-> FALSE, mean |-> <<>>, std |-> <<>>]

\* transforms.Normalize(m, s)
Normalize(m, s) == [mean |-> m, std |-> s]

\* the channel (1-based) of the element at 1-based position i of a tensor of this shape
ChannelOf(i, shape) == (((i - 1) \div (shape[3] * shape[4])) % shape[2]) + 1

\* What calling the transforms.Normalize object on a batch can do.  With lists of
\* the batch's channel count every channel c is normalized by mean[c] and std[c].
\* The repository does not fix what the library does with lists of another
\* length: it raises, or it normalizes the channels that have both statistics
\* and leaves the others as they are.
NormalizeCall(normer, t) ==
    LET k == IF Len(normer.mean) <= Len(normer.std)
             THEN Len(normer.mean) ELSE Len(normer.std)
        out == [shape |-> t.shape,
                data |-> [i \in 1..Numel(t.shape) |->
                    LET c == ChannelOf(i, t.shape)
                    IN  IF c <= k
                        THEN RDiv(RSub(t.data[i], normer.mean[c]), normer.std[c])
                        ELSE t.data[i]]]
    IN  IF Len(normer.mean) = t.shape[2] /\ Len(normer.std) = t.shape[2]
        THEN {Return(out)}
        ELSE {Return(out), Raise("LibraryError")}

\* _setter without its second assert: the length of std is never checked
SetterNoStdAssert(c, meanArg, stdArg) ==
    LET m1 == IF meanArg # None THEN Get(meanArg) ELSE mean
        s1 == IF stdArg # None THEN Get(stdArg) ELSE std
    IN  IF Len(m1) # c
        THEN [mean |-> m1, std |-> std, nondiff_normer |-> nondiff_normer, ok |-> FALSE]
        ELSE [mean |-> m1, std |-> s1,
              nondiff_normer |-> IF meanArg # None \/ stdArg # None
                                 THEN Normalize(m1, s1) ELSE nondiff_normer,
              ok |-> TRUE]

\* _setter rebuilding the transform only when both overrides are given
SetterRebuildBoth(c, meanArg, stdArg) ==
    LET m1 == IF meanArg # None THEN Get(meanArg) ELSE mean
        s1 == IF stdArg # None THEN Get(stdArg) ELSE std
    IN  IF Len(m1) # c
        THEN [mean |-> m1, std |-> std, nondiff_normer |-> nondiff_normer, ok |-> FALSE]
        ELSE IF Len(s1) # c
        THEN [mean |-> m1, std |-> s1, nondiff_normer |-> nondiff_normer, ok |-> FALSE]
        ELSE [mean |-> m1, std |-> s1,
              nondiff_normer |-> IF meanArg # None /\ stdArg # None
                                 THEN Normalize(m1, s1) ELSE nondiff_normer,
              ok |-> TRUE]

\* _setter(c, mean, std): the fields after the call and whether both asserts passed
Setter(c, meanArg, stdArg) ==
    LET m1 == IF meanArg # None THEN Get(meanArg) ELSE mean
        s1 == IF stdArg # None THEN Get(stdArg) ELSE std
    IN  IF Len(m1) # c
        THEN [mean |-> m1, std |-> std, nondiff_normer |-> nondiff_normer, ok |-> FALSE]
        ELSE IF Len(s1) # c
        THEN [mean |-> m1, std |-> s1, nondiff_normer |-> nondiff_normer, ok |-> FALSE]
        ELSE [mean |-> m1, std |-> s1,
              nondiff_normer |-> IF meanArg # None \/ stdArg # None
                                 THEN Normalize(m1, s1) ELSE nondiff_normer,
              ok |-> TRUE]

\* var / std_var - mean_var
NormalizedDivFirst(var, m, s) ==
    LET c == var.shape[2]
    IN  TensorSub(TensorDiv(var, NewView(s, c)), NewView(m, c))

\* (var - mean_var) / std_var
Normalized(var, m, s) ==
    LET c == var.shape[2]
    IN  TensorDiv(TensorSub(var, NewView(m, c)), NewView(s, c))

\* what forward gives once _setter has run: the failed assert, the failed view
\* of a list that does not have c elements, or the normalized batch
ForwardResult(var, s) ==
    IF ~s.ok THEN Raise("AssertionError")
    ELSE IF Len(s.mean) # var.shape[2] \/ Len(s.std) # var.shape[2] THEN Raise("RuntimeError")
    ELSE Return(Normalized(var, s.mean, s.std))

\* the statistics a one-sided override that succeeded puts in force; any other
\* call that supplies an override ends the period
Since(meanArg, stdArg, ok) ==
    IF meanArg = None /\ stdArg = None THEN since
    ELSE IF ok /\ meanArg # None /\ stdArg = None
    THEN [active |-> TRUE, mean |-> Get(meanArg), std |-> std]
    ELSE IF ok /\ meanArg = None /\ stdArg # None
    THEN [active |-> TRUE, mean |-> mean, std |-> Get(stdArg)]
    ELSE NoStats

\* the body of forward(var, mean, std)
ForwardBody(var, meanArg, stdArg) ==
    LET s == Setter(var.shape[2], meanArg, stdArg)
    IN  /\ mean' = s.mean
        /\ std' = s.std
        /\ nondiff_normer' = s.nondiff_normer
        /\ result' = ForwardResult(var, s)
        /\ since' = Since(meanArg, stdArg, s.ok)
        /\ UNCHANGED differentiable

\* __init__(mean, std)
Construct(m, s) ==
    /\ mean = m
    /\ std = s
    /\ differentiable = TRUE
    /\ nondiff_normer = Normalize(m, s)
    /\ op = [name |-> "__init__", var |-> None, mean |-> Some(m), std |-> Some(s)]
    /\ result = NoResult
    /\ since = NoStats

\* no normalizer has been constructed
NormIdle ==
    /\ mean = <<>>
    /\ std = <<>>
    /\ differentiable = TRUE
    /\ nondiff_normer = Normalize(<<>>, <<>>)
    /\ op = [name |-> "none", var |-> None, mean |-> None, std |-> None]
    /\ result = NoResult
    /\ since = NoStats

\* forward(var, mean, std), called directly
Forward(Vars, Means, Stds) ==
    \E var \in Vars, meanArg \in Means, stdArg \in Stds :
        /\ op' = [name |-> "forward", var |-> Some(var), mean |-> meanArg, std |-> stdArg]
        /\ ForwardBody(var, meanArg, stdArg)

\* __call__ that leaves the normalizer in differentiable mode
CallFlip(Vars) ==
    \E var \in Vars :
        /\ op' = [name |-> "__call__", var |-> Some(var), mean |-> None, std |-> None]
        /\ IF differentiable
           THEN ForwardBody(var, None, None)
           ELSE /\ result' \in NormalizeCall(nondiff_normer, var)
                /\ differentiable' = TRUE
                /\ UNCHANGED <<mean, std, nondiff_normer, since>>

\* __call__(var)
Call(Vars) ==
    \E var \in Vars :
        /\ op' = [name |-> "__call__", var |-> Some(var), mean |-> None, std |-> None]
        /\ IF differentiable
           THEN ForwardBody(var, None, None)
           ELSE /\ result' \in NormalizeCall(nondiff_normer, var)
                /\ UNCHANGED <<mean, std, differentiable, nondiff_normer, since>>

\* differentiable_call with the body of nondifferentiable_call
DifferentiableCallFalse ==
    /\ differentiable' = FALSE
    /\ op' = [name |-> "differentiable_call", var |-> None, mean |-> None, std |-> None]
    /\ result' = NoResult
    /\ UNCHANGED <<mean, std, nondiff_normer, since>>

\* differentiable_call()
DifferentiableCall ==
    /\ differentiable' = TRUE
    /\ op' = [name |-> "differentiable_call", var |-> None, mean |-> None, std |-> None]
    /\ result' = NoResult
    /\ UNCHANGED <<mean, std, nondiff_normer, since>>

\* nondifferentiable_call()
NondifferentiableCall ==
    /\ differentiable' = FALSE
    /\ op' = [name |-> "nondifferentiable_call", var |-> None, mean |-> None, std |-> None]
    /\ result' = NoResult
    /\ UNCHANGED <<mean, std, nondiff_normer, since>>

----------------------------------------------------------------------------
(* AverageMeter *)

MeterVals == {Rat(k, 2) : k \in -1..MaxVal}
MeterWeights == -1..MaxN

\* no meter has been constructed
MeterIdle ==
    /\ val = Zero /\ avg = Zero /\ sum = Zero /\ count = 0
    /\ hist = <<>>
    /\ meterResult = "none"

\* __init__(): self.reset()
MeterInit ==
    /\ val = Zero /\ avg = Zero /\ sum = Zero /\ count = 0
    /\ hist = <<>>
    /\ meterResult = "reset"

\* reset()
Reset ==
    /\ val' = Zero
    /\ avg' = Zero
    /\ sum' = Zero
    /\ count' = 0
    /\ hist' = <<>>
    /\ meterResult' = "reset"

\* self.avg = self.sum / self.count: the quotient, or no value on a zero count
Average(s, c) == IF c = 0 THEN {} ELSE {RDiv(s, <<c, 1>>)}

\* update that adds val without its weight n
UpdateUnweighted(v, n) ==
    LET s == RAdd(sum, v)
        c == count + n
        a == Average(s, c)
    IN  /\ val' = v
        /\ sum' = s
        /\ count' = c
        /\ avg' = IF a = {} THEN avg ELSE Get(a)
        /\ meterResult' = IF a = {} THEN "ZeroDivisionError" ELSE "ok"
        /\ hist' = Append(hist, <<v, n>>)

\* update(val, n)
Update(v, n) ==
    LET s == RAdd(sum, RMul(v, <<n, 1>>))
        c == count + n
        a == Average(s, c)
    IN  /\ val' = v
        /\ sum' = s
        /\ count' = c
        /\ avg' = IF a = {} THEN avg ELSE Get(a)
        /\ meterResult' = IF a = {} THEN "ZeroDivisionError" ELSE "ok"
        /\ hist' = Append(hist, <<v, n>>)

MeterUpdate ==
    /\ Len(hist) < MaxUpdates
    /\ \E v \in MeterVals, n \in MeterWeights : Update(v, n)

----------------------------------------------------------------------------
(* safe_var and safe_tensor *)

\* the base class of each class; object is the root
Base(cls) ==
    CASE cls = "Parameter" -> "Variable"
      [] cls = "FloatTensor" -> "_TensorBase"
      [] cls = "LongTensor" -> "_TensorBase"
      [] OTHER -> "object"

RECURSIVE IsSubclass(_, _)
IsSubclass(cls, base) ==
    \/ cls = base
    \/ cls # "object" /\ IsSubclass(Base(cls), base)

\* isinstance(entity, base)
IsInstance(e, base) == IsSubclass(e.cls, base)

Payloads == UNION {[1..len -> 0..1] : len \in 0..MaxData}
Tensors == [cls : {"FloatTensor", "LongTensor"}, payload : Payloads]
Variables == [cls : {"Variable", "Parameter"}, data : Tensors, requires_grad : BOOLEAN]
Arrays == [cls : {"ndarray"}, payload : Payloads]
Others == [cls : {"list", "tuple"}, payload : Payloads]
            \cup [cls : {"int"}, payload : {<<0>>, <<1>>}]
            \cup [cls : {"NoneType"}, payload : {<<>>}]
Entities == Tensors \cup Variables \cup Arrays \cup Others

Returned(x) == [kind |-> "return", value |-> x]
Raised(msg) == [kind |-> "raise", message |-> msg]

\* "Can't cast %s to a Variable" % entity.__class__.__name__
CantCast(e) == <<"Can't cast ", e.cls, " to a Variable">>

\* safe_var(entity, **kwargs)
safe_var(e, kwargs) ==
    IF IsInstance(e, "Variable") THEN Returned(e)
    ELSE IF IsInstance(e, "_TensorBase")
    THEN Returned([cls |-> "Variable", data |-> e, requires_grad |-> kwargs.requires_grad])
    ELSE Raised(CantCast(e))

\* safe_tensor handing back what it cannot convert
safe_tensor_passthrough(e) ==
    IF IsInstance(e, "Variable") THEN Returned(e.data)
    ELSE IF IsInstance(e, "_TensorBase") THEN Returned(e)
    ELSE IF IsInstance(e, "ndarray")
    THEN Returned([cls |-> "FloatTensor", payload |-> e.payload])
    ELSE Returned(e)

\* safe_tensor(entity)
safe_tensor(e) ==
    IF IsInstance(e, "Variable") THEN Returned(e.data)
    ELSE IF IsInstance(e, "_TensorBase") THEN Returned(e)
    ELSE IF IsInstance(e, "ndarray")
    THEN Returned([cls |-> "FloatTensor", payload |-> e.payload])
    ELSE Raised(CantCast(e))

CoerceIdle ==
    /\ entity = [cls |-> "NoneType", payload |-> <<>>]
    /\ helper = "none"
    /\ coerced = Raised(<<>>)

CoerceInit ==
    /\ entity \in Entities
    /\ helper = "none"
    /\ coerced = Raised(<<>>)

SafeVar ==
    \E kwargs \in [requires_grad : BOOLEAN] :
        /\ helper' = "safe_var"
        /\ coerced' = safe_var(entity, kwargs)
        /\ UNCHANGED entity

SafeTensor ==
    /\ helper' = "safe_tensor"
    /\ coerced' = safe_tensor(entity)
    /\ UNCHANGED entity

----------------------------------------------------------------------------
(* Specifications *)

\* one normalizer and the calls made on it
NormInit ==
    /\ \E m \in StatMeans, s \in StatStds : Construct(m, s)
    /\ MeterIdle
    /\ CoerceIdle

NormNext ==
    \/ Forward(StatBatches, Optional(StatMeans), Optional(StatStds)) /\ UNCHANGED <<meterVars, coerceVars>>
    \/ Call(StatBatches) /\ UNCHANGED <<meterVars, coerceVars>>
    \/ DifferentiableCall /\ UNCHANGED <<meterVars, coerceVars>>
    \/ NondifferentiableCall /\ UNCHANGED <<meterVars, coerceVars>>

Spec == NormInit /\ [][NormNext]_vars

\* one forward call on a freshly constructed normalizer, over larger batches
FwdInit ==
    /\ \E m \in FwdMeans, s \in FwdStds : Construct(m, s)
    /\ MeterIdle
    /\ CoerceIdle

FwdNext ==
    /\ op.name = "__init__"
    /\ Forward(FwdBatches, {None}, {None})
    /\ UNCHANGED <<meterVars, coerceVars>>

SpecForward == FwdInit /\ [][FwdNext]_vars

\* one AverageMeter
MeterSpecInit == NormIdle /\ MeterInit /\ CoerceIdle

MeterNext ==
    \/ Reset /\ UNCHANGED <<normVars, coerceVars>>
    \/ MeterUpdate /\ UNCHANGED <<normVars, coerceVars>>

SpecMeter == MeterSpecInit /\ [][MeterNext]_vars

\* the coercion helpers applied to one entity
CoerceSpecInit == NormIdle /\ MeterIdle /\ CoerceInit

CoerceNext ==
    \/ SafeVar /\ UNCHANGED <<normVars, meterVars>>
    \/ SafeTensor /\ UNCHANGED <<normVars, meterVars>>

SpecCoerce == CoerceSpecInit /\ [][CoerceNext]_vars

----------------------------------------------------------------------------
(* Properties of DifferentiableNormalize *)

\* the batch and channel count of the last forward or __call__
OpVar == Get(op.var)
OpC == OpVar.shape[2]
IsApply == op.name \in {"forward", "__call__"}
NoOverride == op.mean = None /\ op.std = None
\* the last call ran forward: called directly, or through __call__ in differentiable mode
OnDiffPath == op.name = "forward" \/ (op.name = "__call__" /\ differentiable)

\* the last call was forward with a mean or std override whose length is not C
BadOverride ==
    /\ op.name = "forward"
    /\ \/ op.mean # None /\ Len(Get(op.mean)) # OpC
       \/ op.std # None /\ Len(Get(op.std)) # OpC

\* what __call__(var) can give with stored lists m and s, cached transform
\* normer and the mode flag at d
OutcomesOf(m, s, normer, d, var) ==
    IF ~d THEN NormalizeCall(normer, var)
    ELSE IF Len(m) # var.shape[2] \/ Len(s) # var.shape[2] THEN {Raise("AssertionError")}
    ELSE {Return(Normalized(var, m, s))}

\* what __call__(var) can give in the current state with the mode flag at d
CallOutcomes(d, var) == OutcomesOf(mean, std, nondiff_normer, d, var)

\* (batch - mean[c]) / std[c] at every index (n, c, h, w)
PerChannel(out, var, m, s) ==
    /\ out.shape = var.shape
    /\ Len(out.data) = Numel(var.shape)
    /\ \A n \in 0..(var.shape[1] - 1), c \in 0..(var.shape[2] - 1),
          h \in 0..(var.shape[3] - 1), w \in 0..(var.shape[4] - 1) :
          LET i == Ravel(<<n, c, h, w>>, var.shape) + 1
          IN  out.data[i] = RDiv(RSub(var.data[i], m[c + 1]), s[c + 1])

\* C1: a forward call with a mean or std override whose length is not the batch's
\* channel count raises, returns no output, and leaves the stored mean, the stored
\* std and the cached transform as they were before the call.
C1_FailedOverrideKeepsState ==
    [][BadOverride' =>
        /\ result'.kind = "raise"
        /\ mean' = mean /\ std' = std /\ nondiff_normer' = nondiff_normer]_vars

\* C2: in every reachable state the cached non-differentiable transform is the
\* one built from the stored mean and the stored std.
C2_CacheBuiltFromStored == nondiff_normer = Normalize(mean, std)

\* C3: for every batch whose channel count is the length of the stored mean and
\* std, __call__ in differentiable mode and in non-differentiable mode return
\* equal outputs.
C3_ModesAgree ==
    \A b \in StatBatches :
        Len(mean) = b.shape[2] /\ Len(std) = b.shape[2]
            => \A r1 \in CallOutcomes(TRUE, b), r2 \in CallOutcomes(FALSE, b) :
                    /\ r1.kind = "return"
                    /\ r2.kind = "return" => r2.value = r1.value

C5_PartialOverride ==
    [][/\ (op'.name = "forward" /\ result'.kind = "return" /\ op'.mean # None /\ op'.std = None)
            => mean' = Get(op'.mean) /\ std' = std
       /\ (op'.name = "forward" /\ result'.kind = "return" /\ op'.mean = None /\ op'.std # None)
            => mean' = mean /\ std' = Get(op'.std)
       /\ (since'.active /\ IsApply' /\ NoOverride')
            => /\ result' \in OutcomesOf(since'.mean, since'.std,
                                           Normalize(since'.mean, since'.std), OnDiffPath', OpVar')
               /\ mean' = since'.mean /\ std' = since'.std
               /\ nondiff_normer' = Normalize(since'.mean, since'.std)
               /\ (result'.kind = "return" /\ Len(since'.mean) = OpC' /\ Len(since'.std) = OpC')
                    => PerChannel(result'.value, OpVar', since'.mean, since'.std)]_vars

C5_Witness ==
    /\ since.active /\ since.std = RampVec(MaxLen) /\ since.mean = ConstVec(Zero, MaxLen)
    /\ op.name = "__call__" /\ ~differentiable
    /\ result.kind = "return" /\ OpC = MaxLen

\* C6: differentiable_call and nondifferentiable_call change only the mode flag;
\* the stored mean, the stored std and the cached transform stay, so what a call
\* gives in either mode is the same before and after a switch.
C6_SwitchChangesOnlyFlag ==
    [][op'.name \in {"differentiable_call", "nondifferentiable_call"} =>
        /\ differentiable' = (op'.name = "differentiable_call")
        /\ mean' = mean /\ std' = std /\ nondiff_normer' = nondiff_normer
        /\ \A b \in StatBatches, d \in BOOLEAN : OutcomesOf(mean', std', nondiff_normer', d, b) = CallOutcomes(d, b)]_vars

C6_Witness ==
    /\ op.name = "differentiable_call" /\ differentiable
    /\ nondiff_normer # Normalize(mean, std)

\* C7: the mode flag starts as differentiable and no forward or __call__ changes
\* it; such a call changes the stored mean and std only to a supplied override
\* and the cached transform only to the one built from the stored lists, and
\* without overrides it changes none of them.
C7_ApplyFrame ==
    /\ differentiable = TRUE
    /\ [][IsApply' =>
            /\ differentiable' = differentiable
            /\ mean' \in {mean} \cup op'.mean
            /\ std' \in {std} \cup op'.std
            /\ nondiff_normer' \in {nondiff_normer, Normalize(mean', std')}
            /\ NoOverride' => mean' = mean /\ std' = std /\ nondiff_normer' = nondiff_normer]_vars

C7_Witness ==
    /\ op.name = "forward" /\ op.mean # None /\ result.kind = "raise"
    /\ ~differentiable /\ mean = Get(op.mean) /\ nondiff_normer # Normalize(mean, std)

\* C8: on the differentiable path the output has the shape of the batch and
\* output[n,c,h,w] = (batch[n,c,h,w] - mean[c]) / std[c]; with mean all 0 and std
\* all 1 the output is the batch, and with C = 3 and mean = std = [0.5, 0.5, 0.5]
\* a batch of constant 1.0 gives constant 1.0.
C8_ForwardFormula ==
    op.name = "forward" =>
        /\ (Len(mean) = OpC /\ Len(std) = OpC) <=> result.kind = "return"
        /\ result.kind = "return" =>
            /\ PerChannel(result.value, OpVar, mean, std)
            /\ (mean = ConstVec(Zero, OpC) /\ std = ConstVec(One, OpC))
                    => result.value = OpVar
            /\ (OpC = 3 /\ mean = ConstVec(Half, 3) /\ std = ConstVec(Half, 3)
                    /\ OpVar = ConstBatch(One, OpVar.shape))
                    => result.value = ConstBatch(One, OpVar.shape)

C8_Witness ==
    /\ op.name = "forward" /\ result.kind = "return"
    /\ OpVar.shape = <<MaxB, 3, MaxH, MaxW>>
    /\ mean = ConstVec(Half, 3) /\ std = ConstVec(Half, 3)
    /\ OpVar = ConstBatch(One, OpVar.shape)
    /\ result.value = ConstBatch(One, OpVar.shape)

----------------------------------------------------------------------------
(* Properties of safe_var and safe_tensor *)

VariableClasses == {"Variable", "Parameter"}
TensorClasses == {"FloatTensor", "LongTensor"}

\* C9: safe_var returns a Variable unchanged, wraps a tensor, and raises naming
\* the type of anything else; safe_tensor returns the data of a Variable, a
\* tensor unchanged, a converted numpy array, and raises naming the type of
\* anything else.  No value is returned for an unsupported type.
C9_CoercionNeverSwallows ==
    /\ helper = "safe_var" =>
        IF entity.cls \in VariableClasses THEN coerced = Returned(entity)
        ELSE IF entity.cls \in TensorClasses
        THEN /\ coerced.kind = "return"
             /\ coerced.value.cls = "Variable"
             /\ coerced.value.data = entity
        ELSE /\ coerced.kind = "raise"
             /\ \E k \in 1..Len(coerced.message) : coerced.message[k] = entity.cls
    /\ helper = "safe_tensor" =>
        IF entity.cls \in VariableClasses THEN coerced = Returned(entity.data)
        ELSE IF entity.cls \in TensorClasses THEN coerced = Returned(entity)
        ELSE IF entity.cls = "ndarray"
        THEN /\ coerced.kind = "return"
             /\ coerced.value.cls \in TensorClasses
             /\ coerced.value.payload = entity.payload
        ELSE /\ coerced.kind = "raise"
             /\ \E k \in 1..Len(coerced.message) : coerced.message[k] = entity.cls

C9_Witness ==
    /\ helper = "safe_tensor" /\ entity.cls = "list" /\ Len(entity.payload) = MaxData
    /\ coerced = Raised(<<"Can't cast ", "list", " to a Variable">>)

----------------------------------------------------------------------------
(* Properties of AverageMeter *)

RECURSIVE SumWeights(_)
SumWeights(h) == IF h = <<>> THEN 0 ELSE h[1][2] + SumWeights(Tail(h))

RECURSIVE SumWeighted(_)
SumWeighted(h) ==
    IF h = <<>> THEN Zero ELSE RAdd(RMul(h[1][1], <<h[1][2], 1>>), SumWeighted(Tail(h)))

\* C10: after construction or reset val = avg = sum = count = 0; after updates
\* whose weights are all at least 1, count is the sum of the weights, sum the
\* sum of val * n, val the last value and avg * count = sum, counting only the
\* updates since the last reset; an update that leaves count at 0 fails with a
\* division error and sets no average.
C10_RunningAverage ==
    /\ hist = <<>> =>
        /\ val = Zero /\ avg = Zero /\ sum = Zero /\ count = 0
        /\ meterResult = "reset"
    /\ (hist # <<>> /\ \A k \in 1..Len(hist) : hist[k][2] >= 1) =>
        /\ count = SumWeights(hist)
        /\ sum = SumWeighted(hist)
        /\ val = hist[Len(hist)][1]
        /\ RMul(avg, <<count, 1>>) = sum
        /\ meterResult = "ok"
    /\ (hist # <<>> /\ count = 0) => meterResult = "ZeroDivisionError"
    /\ (Len(hist) = 1 /\ hist[1][2] = 0) =>
        /\ meterResult = "ZeroDivisionError"
        /\ avg = Zero /\ count = 0

C10_Witness ==
    /\ Len(hist) = 2 /\ hist[1] = <<Half, 2>> /\ hist[2] = <<One, 1>>
    /\ count = 3 /\ sum = <<2, 1>> /\ avg = <<2, 3>> /\ val = One

====
